---- MODULE Spec2Model ----
(***************************************************************************)
(* The SARS knowledge base (agents/lib/sars_knowledge_base.py) and the two *)
(* agents that own an instance of it, as a state machine.                  *)
(*                                                                         *)
(* The persisted state is the two regulation documents under data/sars     *)
(* and the backup files update_regulation writes beside them.  The         *)
(* in-memory state is, per SARSKnowledgeBase instance, section12h_data,    *)
(* eti_data, knowledge_base and initialized.                               *)
(*                                                                         *)
(* Every method is given as a small-step semantics (Step): one step per    *)
(* statement that reads or writes shared state.  Spec runs each call to    *)
(* completion in one action (a single caller); SpecConc interleaves the    *)
(* steps of two callers and lets the process stop between any two steps.   *)
(***************************************************************************)
EXTENDS Integers, Sequences, FiniteSets, TLC

\* ----------------------------------------------------------------- bounds
\* Versions of a regulation document an update may supply: 1..MaxVer.
MaxVer == 2
\* The wall clock, in whole seconds: 0..MaxClock.
MaxClock == 1
\* Number of update_regulation calls in one behaviour.
MaxUpdates == 2
\* Largest number of worked examples in a document's calculation_examples.
MaxExamples == 1

\* ------------------------------------------------------ persisted documents
\* The two persisted documents, by file name.
F12H == "section_12h_learnerships.json"
FETI == "eti_employment_incentive.json"
FileNames == {F12H, FETI}

\* A map with an entry for a regulation the store does not hold.
file_map_vat == [section_12h |-> F12H, eti |-> FETI, vat |-> FETI]

\* update_regulation's map from regulation type to file name.
file_map == [section_12h |-> F12H, eti |-> FETI]

\* Names a caller may pass to get_regulation_details.
RegulationNames == {"Section 12H", "eti", "section_12h"}

\* str.upper() on the names above.
Upper(s) ==
  CASE s = "Section 12H" -> "SECTION 12H"
    [] s = "eti"         -> "ETI"
    [] s = "section_12h" -> "SECTION_12H"
    [] OTHER             -> s

\* The fields of a document whose absence the model distinguishes, by where
\* initialize first reads them:
\*   description          the overview item of the document (first item built)
\*   calculation_examples the example loop, after the eight fixed items
\*   last_updated         the last print of initialize (Section 12H only)
MissingFields == {"none", "description", "calculation_examples", "last_updated"}

\* The number of worked examples version v of a document carries: the
\* versions differ in it (the shipped version 1 has one).
ExamplesIn(v) == v % (MaxExamples + 1)

\* A regulation document (the parsed JSON object): ver stands for its
\* content, missing for the one required field it lacks, nex for the length
\* of calculation_examples.  An update supplies a complete document of any
\* version, or the newest version with one field missing.
ValidDocs == {[ver |-> v, missing |-> "none", nex |-> ExamplesIn(v)] : v \in 1..MaxVer}
InvalidDocs ==
  {[ver |-> MaxVer, missing |-> x, nex |-> 0] : x \in MissingFields \ {"none"}}
Docs == ValidDocs \cup InvalidDocs

\* Python's None for section12h_data / eti_data, and the body of an empty file.
NoDoc == [ver |-> 0, missing |-> "none", nex |-> 0]

\* The documents shipped with the program.
ShippedDoc == [ver |-> 1, missing |-> "none", nex |-> ExamplesIn(1)]

\* A file: absent, empty (opened for writing, nothing flushed yet), or
\* holding the complete JSON text of a document.
NoFile == [exists |-> FALSE, body |-> NoDoc]
EmptyFile == [exists |-> TRUE, body |-> NoDoc]

\* json.dump(new_data, f) followed by the close of f: the text of the document.
JsonDump(doc) == [exists |-> TRUE, body |-> doc]

\* open(path, 'r') then json.load(f): the document, or the exception raised.
JsonLoad(file) ==
  IF ~file.exists THEN [err |-> "FileNotFoundError", doc |-> NoDoc]
  ELSE IF file.body = NoDoc THEN [err |-> "JSONDecodeError", doc |-> NoDoc]
  ELSE [err |-> "none", doc |-> file.body]

\* Path.with_suffix('.backup_<YYYYmmdd_HHMMSS>.json'): the backup's name is
\* the file's name and the second at which update_regulation ran.
BackupPath(file, now) == <<file, now>>
BackupPaths == FileNames \X (0..MaxClock)

\* ------------------------------------------------------- in-memory store
Instances == {"financial_sentinel", "sars_monitor"}

\* SARSKnowledgeBase.__init__
FreshKB ==
  [section12h_data |-> NoDoc, eti_data |-> NoDoc,
   knowledge_base |-> <<>>, initialized |-> FALSE]

\* The eight fixed knowledge items, in build order.
FixedIds ==
  <<"section_12h_overview", "section_12h_completion", "section_12h_eligibility",
    "section_12h_documentation", "section_12h_mistakes",
    "eti_overview", "eti_eligibility", "eti_claiming">>

NumFixed == 8
NumFixed12H == 5

\* A knowledge item: its id (name and example index), its regulation and the
\* document content its text was formatted from.
Item(name, i, regulation, doc) ==
  [id |-> [name |-> name, i |-> i], regulation |-> regulation, content |-> doc.ver]

\* The appends of _build_knowledge_base come in four groups, each reading
\* one document: the five fixed Section 12H items, the three fixed ETI items,
\* the Section 12H examples and the ETI examples.  A missing field raises
\* KeyError while the first item of its group is constructed, so a group is
\* appended whole or not at all.
FixedItems(d12, deti, from, to) ==
  [j \in 1..(to - from + 1) |->
     IF from + j - 1 <= NumFixed12H
     THEN Item(FixedIds[from + j - 1], 0, "Section 12H", d12)
     ELSE Item(FixedIds[from + j - 1], 0, "ETI", deti)]

ExampleItems(name, regulation, doc) ==
  [j \in 1..doc.nex |-> Item(name, j - 1, regulation, doc)]

\* Group g of the build (g from 1), given the two loaded documents: the items
\* appended, a KeyError, or the end of the build.
GroupAt(d12, deti, g) ==
  CASE g = 1 ->
         IF d12.missing = "description" THEN [kind |-> "KeyError", items |-> <<>>]
         ELSE [kind |-> "items", items |-> FixedItems(d12, deti, 1, NumFixed12H)]
    [] g = 2 ->
         IF deti.missing = "description" THEN [kind |-> "KeyError", items |-> <<>>]
         ELSE [kind |-> "items",
               items |-> FixedItems(d12, deti, NumFixed12H + 1, NumFixed)]
    [] g = 3 ->
         IF d12.missing = "calculation_examples"
         THEN [kind |-> "KeyError", items |-> <<>>]
         ELSE [kind |-> "items",
               items |-> ExampleItems("section_12h_example", "Section 12H", d12)]
    [] g = 4 ->
         IF deti.missing = "calculation_examples"
         THEN [kind |-> "KeyError", items |-> <<>>]
         ELSE [kind |-> "items", items |-> ExampleItems("eti_example", "ETI", deti)]
    [] OTHER -> [kind |-> "end", items |-> <<>>]

\* ------------------------------------------------------------- call frames
\* A call in progress: the method, the instance it runs on, its arguments
\* (arg: regulation type or name; doc: new_data), the statement it is at,
\* the next group of knowledge items, update_regulation's timestamp, and
\* whether the call has entered initialize() (its "Loading SARS knowledge"
\* line was printed).
IdleFrame ==
  [op |-> "idle", inst |-> "sars_monitor", arg |-> "", doc |-> NoDoc,
   at |-> "return", k |-> 0, ts |-> 0, loaded |-> FALSE]

\* The statement a method starts at.
EntryPoint(op) ==
  CASE op = "initialize"             -> "open_12h"
    [] op = "query"                  -> "lazy_check"
    [] op = "get_regulation_details" -> "lazy_check"
    [] op = "update_regulation"      -> "check_type"
    [] OTHER                         -> "return"

NewFrame(op, inst, arg, doc) ==
  [op |-> op, inst |-> inst, arg |-> arg, doc |-> doc,
   at |-> EntryPoint(op), k |-> 0, ts |-> 0, loaded |-> FALSE]

\* What a call returned: nothing, a document (None is NoDoc with kind
\* "None"), or the knowledge items a search scanned.
NoRet == [kind |-> "none", doc |-> NoDoc, items |-> <<>>]

\* A machine configuration: one instance's memory, the files, a frame, the
\* exception raised (if any) and the value returned.
Config(mem, disk, backups, f) ==
  [mem |-> mem, disk |-> disk, backups |-> backups, f |-> f,
   err |-> "none", ret |-> NoRet]

Goto(m, at) == [m EXCEPT !.f.at = at]
Raise(m, e) == [m EXCEPT !.err = e, !.f.at = "raised"]
Finished(m) == m.f.at \in {"return", "raised"}

\* Where control goes when initialize() returns to the method that called it.
AfterInitialize(op) ==
  IF op \in {"query", "get_regulation_details"} THEN "read" ELSE "return"

\* initialize(), lines 39-43: load the Section 12H document.
LoadSection12H(m) ==
  LET r == JsonLoad(m.disk[F12H])
      n == [m EXCEPT !.f.loaded = TRUE] IN
  IF r.err # "none" THEN Raise(n, r.err)
  ELSE Goto([n EXCEPT !.mem.section12h_data = r.doc], "open_eti")

\* initialize(), lines 45-47: load the ETI document.
LoadETI(m) ==
  LET r == JsonLoad(m.disk[FETI]) IN
  IF r.err # "none" THEN Raise(m, r.err)
  ELSE Goto([m EXCEPT !.mem.eti_data = r.doc], "build_reset")

\* A build that appends to the list it finds.
BuildResetKept(m) == [Goto(m, "append") EXCEPT !.f.k = 1]

\* _build_knowledge_base, line 62: the list starts empty.
BuildReset(m) ==
  [Goto(m, "append") EXCEPT !.mem.knowledge_base = <<>>, !.f.k = 1]

\* _build_knowledge_base, lines 64-202: the appends of one group (or the
\* KeyError that the construction of its first item raises, or the end of
\* the build).
BuildAppend(m) ==
  LET g == GroupAt(m.mem.section12h_data, m.mem.eti_data, m.f.k) IN
  CASE g.kind = "KeyError" -> Raise(m, "KeyError")
    [] g.kind = "end"      -> Goto(m, "set_initialized")
    [] OTHER ->
         [m EXCEPT !.mem.knowledge_base = @ \o g.items, !.f.k = @ + 1]

\* initialize(), line 52.
SetInitialized(m) == Goto([m EXCEPT !.mem.initialized = TRUE], "print")

\* initialize(), lines 55-58: the last print reads section12h_data["last_updated"].
PrintLoaded(m) ==
  IF m.mem.section12h_data.missing = "last_updated" THEN Raise(m, "KeyError")
  ELSE Goto(m, AfterInitialize(m.f.op))

\* A head that refuses an uninitialized store instead of loading it.
LazyCheckStrict(m) ==
  IF m.mem.initialized THEN Goto(m, "read") ELSE Raise(m, "NotInitialized")

\* "if not self.initialized: self.initialize()" at the head of query,
\* get_regulation_details and the calculators.
LazyCheck(m) == IF m.mem.initialized THEN Goto(m, "read") ELSE Goto(m, "open_12h")

\* get_regulation_details, lines 371-376.
RegulationDetails(mem, regulation) ==
  IF Upper(regulation) = "SECTION 12H"
    THEN [kind |-> "doc", doc |-> mem.section12h_data, items |-> <<>>]
  ELSE IF Upper(regulation) = "ETI"
    THEN [kind |-> "doc", doc |-> mem.eti_data, items |-> <<>>]
  ELSE [kind |-> "None", doc |-> NoDoc, items |-> <<>>]

\* query, lines 212-226: the items the search scans.
QueryScan(mem) == [kind |-> "items", doc |-> NoDoc, items |-> mem.knowledge_base]

\* The read a method performs once the store is initialized.
Read(m) ==
  Goto([m EXCEPT !.ret = IF m.f.op = "query" THEN QueryScan(m.mem)
                         ELSE RegulationDetails(m.mem, m.f.arg)],
       "return")

\* update_regulation, lines 337-338.
KnownType(regulation_type) == regulation_type \in DOMAIN file_map

CheckType(m) ==
  IF KnownType(m.f.arg) THEN Goto(m, "stamp") ELSE Raise(m, "ValueError")

\* update_regulation, line 343: the backup's name is fixed from the clock.
Stamp(m, now) == Goto([m EXCEPT !.f.ts = now], "copy_open")

\* update_regulation, lines 344-346: shutil.copy opens the backup for
\* writing (creating or emptying it) when the document exists ...
CopyOpen(m) ==
  LET file == file_map[m.f.arg] IN
  IF m.disk[file].exists
  THEN Goto([m EXCEPT !.backups[BackupPath(file, m.f.ts)] = EmptyFile], "copy_write")
  ELSE Goto(m, "open_w")

\* ... and then copies what the document holds at that moment.
CopyWrite(m) ==
  LET file == file_map[m.f.arg] IN
  Goto([m EXCEPT !.backups[BackupPath(file, m.f.ts)] = m.disk[file]], "open_w")

\* update_regulation, line 350: open(file_path, 'w') empties the document.
OpenForWrite(m) ==
  Goto([m EXCEPT !.disk[file_map[m.f.arg]] = EmptyFile], "dump")

\* update_regulation, line 351: the new text is written and the file closed.
Dump(m) ==
  Goto([m EXCEPT !.disk[file_map[m.f.arg]] = JsonDump(m.f.doc)], "reload")

\* An update that returns after the write, without reloading.
ReloadSkipped(m) == Goto(m, "return")

\* update_regulation, line 357: self.initialize().
Reload(m) == Goto(m, "open_12h")

\* One statement of the call in m.
Step(m, now) ==
  CASE m.f.at = "open_12h"        -> LoadSection12H(m)
    [] m.f.at = "open_eti"        -> LoadETI(m)
    [] m.f.at = "build_reset"     -> BuildReset(m)
    [] m.f.at = "append"          -> BuildAppend(m)
    [] m.f.at = "set_initialized" -> SetInitialized(m)
    [] m.f.at = "print"           -> PrintLoaded(m)
    [] m.f.at = "lazy_check"      -> LazyCheck(m)
    [] m.f.at = "read"            -> Read(m)
    [] m.f.at = "check_type"      -> CheckType(m)
    [] m.f.at = "stamp"           -> Stamp(m, now)
    [] m.f.at = "copy_open"       -> CopyOpen(m)
    [] m.f.at = "copy_write"      -> CopyWrite(m)
    [] m.f.at = "open_w"          -> OpenForWrite(m)
    [] m.f.at = "dump"            -> Dump(m)
    [] m.f.at = "reload"          -> Reload(m)
    [] OTHER                      -> m

\* A call run to completion by a single caller.
RECURSIVE Run(_, _)
Run(m, now) == IF Finished(m) THEN m ELSE Run(Step(m, now), now)

\* ------------------------------------------------------------ calculators
\* Longest learner or employee list a calculator is called with.
MaxPeople == 2

\* The allowances table of a Section 12H document
\* (allowances.annual_allowance and allowances.completion_allowance, by NQF
\* band and ability), in rand.  The table is part of the document's content:
\* version 1 carries one amount per cell, a later version v one flat amount.
AllowanceCells(doc) ==
  IF doc.ver = 1
  THEN [nqf_1_to_6  |-> [able_bodied |-> 40000, disability |-> 60000],
        nqf_7_to_10 |-> [able_bodied |-> 20000, disability |-> 50000]]
  ELSE [nqf_1_to_6  |-> [able_bodied |-> 10000 * (doc.ver + 1),
                         disability  |-> 10000 * (doc.ver + 1)],
        nqf_7_to_10 |-> [able_bodied |-> 10000 * (doc.ver + 1),
                         disability  |-> 10000 * (doc.ver + 1)]]

Allowances(doc) ==
  [annual_allowance |-> AllowanceCells(doc), completion_allowance |-> AllowanceCells(doc)]

\* The learners a caller may pass: nqf_level on both sides of every band
\* edge and outside 1..10; 'disabled' and 'completed' are read with
\* .get(key, False), so an absent flag is the flag FALSE.
NqfLevels == {-1, 0, 1, 6, 7, 10, 11}
Learners == [nqf_level : NqfLevels, disabled : BOOLEAN, completed : BOOLEAN]

\* All lists of at most n elements of S.
ListsOf(S, n) == UNION {[1..k -> S] : k \in 0..n}

\* calculate_section_12h, lines 242-257: one learner's breakdown entry.
LearnerEntry(data, learner) ==
  LET level == IF learner.nqf_level <= 6 THEN "nqf_1_to_6" ELSE "nqf_7_to_10"
      ability == IF learner.disabled THEN "disability" ELSE "able_bodied"
      annual == Allowances(data).annual_allowance[level][ability]
      completion == IF learner.completed
                    THEN Allowances(data).completion_allowance[level][ability]
                    ELSE 0
  IN [nqf_level |-> learner.nqf_level, annual_allowance |-> annual,
      completion_allowance |-> completion, total |-> annual + completion]

\* calculate_section_12h, lines 238-257: the loop over the learners, with
\* its two accumulators.
RECURSIVE Section12HLoop(_, _, _)
Section12HLoop(data, learnerships, acc) ==
  IF learnerships = <<>> THEN acc
  ELSE LET e == LearnerEntry(data, Head(learnerships)) IN
       Section12HLoop(data, Tail(learnerships),
                      [total_recovery |-> acc.total_recovery + e.total,
                       breakdown |-> Append(acc.breakdown, e)])

\* The smallest power of two greater than x, from p (a power of two).
RECURSIVE PowerOfTwoAbove(_, _)
PowerOfTwoAbove(x, p) == IF p > x THEN p ELSE PowerOfTwoAbove(x, 2 * p)

\* calculate_section_12h, line 262: total_recovery * 0.28 in Python, an int
\* times a float.  The float 0.28 is the double nearest to 28/100, which is
\* 28/100 + 12/(25 * 2^54); the product is the double nearest to
\* total_recovery times that number.  For a total that is a multiple of 25
\* (the amounts are whole thousands) total * 28/100 is itself a double, with
\* neighbours one ulp = p/2^53 away, p the smallest power of two above it;
\* the product is that double when 12 * total < 25 * p and its upper
\* neighbour otherwise (40000 * 0.28 is 11200.000000000002).  The value is
\* hundredths/100 rand plus ulps units in the last place.
TimesRate(total_recovery) ==
  [hundredths |-> total_recovery * 28,
   ulps |-> IF 12 * total_recovery >
               25 * PowerOfTwoAbove((total_recovery * 28) \div 100, 1)
            THEN 1 ELSE 0]

\* The fields both calculators read for the foot of their result:
\* official_sources[0] and last_updated of the regulation's document.
FootError(data) == IF data.missing = "last_updated" THEN "KeyError" ELSE "none"

\* What a call produced when it raised.
NoResult == [kind |-> "none"]

\* calculate_section_12h, lines 238-267, on an initialized store.
Section12HResult(mem, learnerships) ==
  LET acc == Section12HLoop(mem.section12h_data, learnerships,
                            [total_recovery |-> 0, breakdown |-> <<>>])
  IN IF FootError(mem.section12h_data) # "none"
     THEN [err |-> FootError(mem.section12h_data), ret |-> NoResult]
     ELSE [err |-> "none",
           ret |-> [kind |-> "section_12h",
                    total_recovery |-> acc.total_recovery,
                    tax_saving_28_percent |-> TimesRate(acc.total_recovery),
                    learnerships_count |-> Len(learnerships),
                    breakdown |-> acc.breakdown,
                    last_verified |-> mem.section12h_data.ver]]

\* The values of an ETI document the overview and eligibility items quote
\* (eligibility.employee.age_range and
\* monthly_allowance_2025.qualifying_threshold).  They are part of the
\* document's content: version 1 carries 18-29 and 7500, a later version a
\* higher threshold.
ETIRules(doc) ==
  [age_range |-> <<18, 29>>,
   qualifying_threshold |-> 7500 + 500 * (doc.ver - 1)]

\* The employees a caller may pass: an 18-year-old on every salary (whole
\* rand) on both sides of 0 and of every breakpoint, with tenure on both
\* sides of 12 months or not given; an 18-year-old on the plateau with
\* tenure 0 and on both sides of 24 months; and every age on both sides of
\* 18 and 29 on a salary on the plateau or at the ceiling.
Ages == {17, 18, 29, 30}
Salaries == {-1, 0, 2499, 2500, 5499, 5500, 7499, 7500}
AgesAndSalaries == (Ages \X {2500, 7499, 7500}) \cup ({18} \X Salaries)
Employees ==
  {[age |-> 18, monthly_salary |-> s, months_employed |-> n] :
     s \in Salaries, n \in {12, 13}}
    \cup {[age |-> 18, monthly_salary |-> 2500, months_employed |-> n] :
            n \in {0, 24, 25}}
    \cup {[age |-> a[1], monthly_salary |-> a[2]] : a \in AgesAndSalaries}

\* calculate_eti, line 283: employee.get('months_employed', 1).
MonthsEmployed(employee) ==
  IF "months_employed" \in DOMAIN employee THEN employee.months_employed ELSE 1

\* The salary test with > where the code has >=.
SkippedAbove(employee) ==
  \/ employee.age < 18 \/ employee.age > 29
  \/ employee.monthly_salary > 7500

\* calculate_eti, lines 278-281: the two tests that skip an employee.
Skipped(employee) ==
  \/ employee.age < 18 \/ employee.age > 29
  \/ employee.monthly_salary >= 7500

\* The later-tenure branch with the plateau of the early-tenure branch.
monthly_eti_pasted(monthly_salary, months_employed) ==
  LET eti ==
        IF months_employed <= 12
        THEN IF monthly_salary < 2500 THEN monthly_salary * 600
             ELSE IF 2500 <= monthly_salary /\ monthly_salary < 5500 THEN 1500 * 1000
             ELSE 1500 * 1000 - 750 * (monthly_salary - 5500)
        ELSE IF monthly_salary < 2500 THEN monthly_salary * 300
             ELSE IF 2500 <= monthly_salary /\ monthly_salary < 5500 THEN 1500 * 1000
             ELSE 750 * 1000 - 375 * (monthly_salary - 5500)
  IN IF eti > 0 THEN eti ELSE 0

\* calculate_eti, lines 284-301: the monthly incentive of one employee, in
\* thousandths of a rand (0.6, 0.75, 0.3 and 0.375 rand per rand of salary
\* are 600, 750, 300 and 375 thousandths).
monthly_eti(monthly_salary, months_employed) ==
  LET eti ==
        IF months_employed <= 12
        THEN IF monthly_salary < 2500 THEN monthly_salary * 600
             ELSE IF 2500 <= monthly_salary /\ monthly_salary < 5500 THEN 1500 * 1000
             ELSE 1500 * 1000 - 750 * (monthly_salary - 5500)
        ELSE IF monthly_salary < 2500 THEN monthly_salary * 300
             ELSE IF 2500 <= monthly_salary /\ monthly_salary < 5500 THEN 750 * 1000
             ELSE 750 * 1000 - 375 * (monthly_salary - 5500)
  IN IF eti > 0 THEN eti ELSE 0

\* calculate_eti, lines 304-310: one employee's breakdown entry.
EmployeeEntry(employee) ==
  [age |-> employee.age, salary |-> employee.monthly_salary,
   months_employed |-> MonthsEmployed(employee),
   monthly_eti |-> monthly_eti(employee.monthly_salary, MonthsEmployed(employee))]

\* calculate_eti, lines 274-310: the loop over the employees.
RECURSIVE ETILoop(_, _)
ETILoop(employees, acc) ==
  IF employees = <<>> THEN acc
  ELSE IF Skipped(Head(employees)) THEN ETILoop(Tail(employees), acc)
  ELSE LET e == EmployeeEntry(Head(employees)) IN
       ETILoop(Tail(employees),
               [total_monthly_eti |-> acc.total_monthly_eti + e.monthly_eti,
                breakdown |-> Append(acc.breakdown, e)])

\* calculate_eti, lines 274-320, on an initialized store.
ETIResult(mem, employees) ==
  LET acc == ETILoop(employees, [total_monthly_eti |-> 0, breakdown |-> <<>>])
  IN IF FootError(mem.eti_data) # "none"
     THEN [err |-> FootError(mem.eti_data), ret |-> NoResult]
     ELSE [err |-> "none",
           ret |-> [kind |-> "eti",
                    monthly_eti |-> acc.total_monthly_eti,
                    annual_eti |-> acc.total_monthly_eti * 12,
                    qualifying_employees |-> Len(acc.breakdown),
                    breakdown |-> acc.breakdown,
                    last_verified |-> mem.eti_data.ver]]

\* The record of a calculator or detector call; none was made yet.
OutRecord(op, input, r) == [op |-> op, input |-> input, err |-> r.err, ret |-> r.ret]
NoOut == [op |-> "none", input |-> <<>>, err |-> "none", ret |-> NoResult]

\* ------------------------------------------------------- crisis detector
\* An optional value: <<>> is Python's None (or an absent key), <<v>> is v.
None == <<>>
Some(v) == <<v>>

\* Python's truth test of a metric: None and 0 are false.
Truthy(x) == x # None /\ x[1] # 0

\* The load-shedding document (data/crisis/loadshedding_2024.json) as far as
\* the detector's methods read it: the business impact matrix, a row per
\* sector; a row holds the stages that have an entry and may hold the
\* mitigation text.
Row(stages) == [stages |-> stages, mitigation |-> TRUE]
LoadshedDocs ==
  {[business_impact_matrix |->
      [sector \in {"manufacturing", "retail", "it_services", "sme_services"} |->
         IF sector = "manufacturing" THEN Row(first) ELSE Row({2, 4})]] :
     first \in {{2, 4}, {1, 2, 4, 6}, {2}}}

\* The file of the document: absent, or holding one of the documents.
CrisisFiles == {[exists |-> FALSE]} \cup {[exists |-> TRUE, body |-> d] : d \in LoadshedDocs}

\* CrisisDetector.__init__, lines 19-22.
FreshDetector == [initialized |-> FALSE, loadshed_data |-> None]

\* CrisisDetector.initialize, lines 29-30: the document is loaded ...
DetectorLoad(file) ==
  IF file.exists THEN [err |-> "none", data |-> Some(file.body)]
  ELSE [err |-> "FileNotFoundError", data |-> None]

\* ... and lines 51-57: every row of the matrix is read for its stage_2,
\* stage_4 and mitigation entries.
RowsComplete(data) ==
  \A sector \in DOMAIN data.business_impact_matrix :
    LET impacts == data.business_impact_matrix[sector] IN
    2 \in impacts.stages /\ 4 \in impacts.stages /\ impacts.mitigation

\* CrisisDetector.initialize, lines 24-60: the detector it leaves and the
\* exception it raises.
DetectorInitialize(d, file) ==
  LET r == DetectorLoad(file) IN
  IF r.err # "none" THEN [err |-> r.err, detector |-> d]
  ELSE IF ~RowsComplete(r.data[1])
  THEN [err |-> "KeyError", detector |-> [d EXCEPT !.loadshed_data = r.data]]
  ELSE [err |-> "none",
        detector |-> [initialized |-> TRUE, loadshed_data |-> r.data]]

\* metrics.get(key), lines 93-95.
Get(metrics, key) == IF key \in DOMAIN metrics THEN Some(metrics[key]) ELSE None

\* A triggered indicator as assessLoadsheddingRisk reports it.
Risk(indicator, current_value, threshold, risk_level) ==
  [indicator |-> indicator, current_value |-> current_value[1],
   threshold |-> threshold, risk_level |-> risk_level]

\* assessLoadsheddingRisk, lines 97-99.
AssessStart == [risks |-> <<>>, overall_risk |-> "Low", alert_level |-> "GREEN"]

\* assessLoadsheddingRisk, lines 102-123.
CheckEAF(eaf, a) ==
  IF Truthy(eaf) /\ eaf[1] < 60
  THEN [risks |-> Append(a.risks,
                         Risk("Energy Availability Factor below 60%", eaf, 60, "Critical")),
        overall_risk |-> "Critical", alert_level |-> "RED"]
  ELSE IF Truthy(eaf) /\ eaf[1] < 65
  THEN [risks |-> Append(a.risks,
                         Risk("Energy Availability Factor below 65%", eaf, 65, "High")),
        overall_risk |-> "High", alert_level |-> "ORANGE"]
  ELSE a

\* The outages branch raising the alert only from GREEN.
CheckOutagesFromGreen(unplanned_outages_mw, a) ==
  IF Truthy(unplanned_outages_mw) /\ unplanned_outages_mw[1] > 15000
  THEN [risks |-> Append(a.risks,
                         Risk("Unplanned outages above 15,000 MW",
                              unplanned_outages_mw, 15000, "Critical")),
        overall_risk |-> "Critical",
        alert_level |-> IF a.alert_level = "GREEN" THEN "RED" ELSE a.alert_level]
  ELSE a

\* assessLoadsheddingRisk, lines 125-136.
CheckOutages(unplanned_outages_mw, a) ==
  IF Truthy(unplanned_outages_mw) /\ unplanned_outages_mw[1] > 15000
  THEN [risks |-> Append(a.risks,
                         Risk("Unplanned outages above 15,000 MW",
                              unplanned_outages_mw, 15000, "Critical")),
        overall_risk |-> IF a.overall_risk # "Critical" THEN "Critical"
                         ELSE a.overall_risk,
        alert_level |-> "RED"]
  ELSE a

\* The coal branch setting the overall risk whatever it was.
CheckCoalOverwrites(coal_stockpile_days, a) ==
  IF Truthy(coal_stockpile_days) /\ coal_stockpile_days[1] < 20
  THEN [risks |-> Append(a.risks,
                         Risk("Coal stockpile below 20 days",
                              coal_stockpile_days, 20, "Medium")),
        overall_risk |-> "Medium",
        alert_level |-> IF a.alert_level = "GREEN" THEN "YELLOW" ELSE a.alert_level]
  ELSE a

\* assessLoadsheddingRisk, lines 138-150.
CheckCoal(coal_stockpile_days, a) ==
  IF Truthy(coal_stockpile_days) /\ coal_stockpile_days[1] < 20
  THEN [risks |-> Append(a.risks,
                         Risk("Coal stockpile below 20 days",
                              coal_stockpile_days, 20, "Medium")),
        overall_risk |-> IF a.overall_risk = "Low" THEN "Medium" ELSE a.overall_risk,
        alert_level |-> IF a.alert_level = "GREEN" THEN "YELLOW" ELSE a.alert_level]
  ELSE a

\* _get_recommendations, lines 185-209.
recommendations_map ==
  [Critical |-> <<"Activate all backup power systems immediately",
                  "Reschedule critical operations to off-peak hours",
                  "Alert all stakeholders of imminent disruption",
                  "Implement emergency business continuity protocols">>,
   High     |-> <<"Test backup generators and UPS systems",
                  "Stock up on diesel/battery reserves",
                  "Schedule flexible work arrangements",
                  "Communicate potential disruptions to clients">>,
   Medium   |-> <<"Monitor Eskom announcements closely",
                  "Review business continuity plans",
                  "Ensure backup systems are operational",
                  "Consider demand-side management options">>,
   Low      |-> <<"Maintain regular monitoring schedule",
                  "Keep backup systems in standby mode",
                  "Continue normal operations">>]

\* A lookup whose table is keyed in lower case: every tier takes the default.
get_recommendations_lower(risk_level) == recommendations_map["Low"]

\* _get_recommendations, line 211.
get_recommendations(risk_level) ==
  IF risk_level \in DOMAIN recommendations_map
  THEN recommendations_map[risk_level]
  ELSE recommendations_map["Low"]

\* assessLoadsheddingRisk, lines 91-161, on detector d.
AssessResult(d, metrics) ==
  LET a == CheckCoal(Get(metrics, "coal_stockpile_days"),
             CheckOutages(Get(metrics, "unplanned_outages_mw"),
               CheckEAF(Get(metrics, "eaf"), AssessStart)))
      recommendations == get_recommendations(a.overall_risk)
  IN IF d.loadshed_data = None
     THEN [err |-> "TypeError", ret |-> NoResult]
     ELSE [err |-> "none",
           ret |-> [kind |-> "assessment",
                    overall_risk |-> a.overall_risk,
                    alert_level |-> a.alert_level,
                    risks |-> a.risks,
                    recommendations |-> recommendations]]

\* The guardian's tool assess_loadshedding_risk, lines 70-74: the metrics it
\* hands to the detector.
ToolMetrics(eaf, unplanned_outages_mw, coal_stockpile_days) ==
  [k \in {"eaf"}
        \cup (IF Truthy(unplanned_outages_mw) THEN {"unplanned_outages_mw"} ELSE {})
        \cup (IF Truthy(coal_stockpile_days) THEN {"coal_stockpile_days"} ELSE {}) |->
     CASE k = "eaf" -> eaf
       [] k = "unplanned_outages_mw" -> unplanned_outages_mw[1]
       [] OTHER -> coal_stockpile_days[1]]

\* The metric values the tool's caller supplied (an argument left out is
\* None), as a snapshot.
Supplied(eaf, unplanned_outages_mw, coal_stockpile_days) ==
  [k \in {"eaf"}
        \cup (IF unplanned_outages_mw # None THEN {"unplanned_outages_mw"} ELSE {})
        \cup (IF coal_stockpile_days # None THEN {"coal_stockpile_days"} ELSE {}) |->
     CASE k = "eaf" -> eaf
       [] k = "unplanned_outages_mw" -> unplanned_outages_mw[1]
       [] OTHER -> coal_stockpile_days[1]]

\* "if not impacts", line 169: no row, or a row with no entry at all.
NoImpacts(impacts) ==
  impacts = None \/ (impacts[1].stages = {} /\ ~impacts[1].mitigation)

\* An entry read with impacts[stage_key].
StageImpactStrict(sector, impacts, stage) ==
  IF stage \in impacts.stages
  THEN [err |-> "none", impact |-> <<"impact", sector, stage>>]
  ELSE [err |-> "KeyError", impact |-> <<>>]

\* getBusinessImpact, lines 172-173: impacts.get(stage_key, 'Unknown impact
\* for this stage').
StageImpact(sector, impacts, stage) ==
  IF stage \in impacts.stages
  THEN [err |-> "none", impact |-> <<"impact", sector, stage>>]
  ELSE [err |-> "none", impact |-> <<"Unknown impact for this stage">>]

\* getBusinessImpact, line 180.
Severity(stage) == IF stage >= 4 THEN "Severe" ELSE IF stage >= 2 THEN "Moderate" ELSE "Minor"

\* getBusinessImpact, lines 163-181, on detector d.
BusinessImpactResult(d, sector, stage) ==
  IF ~d.initialized
  THEN [err |-> "Crisis Detector not initialized", ret |-> NoResult]
  ELSE LET impacts == Get(d.loadshed_data[1].business_impact_matrix, sector) IN
       IF NoImpacts(impacts) THEN [err |-> "Unknown sector", ret |-> NoResult]
       ELSE LET r == StageImpact(sector, impacts[1], stage) IN
            IF r.err # "none" THEN [err |-> r.err, ret |-> NoResult]
            ELSE IF ~impacts[1].mitigation THEN [err |-> "KeyError", ret |-> NoResult]
            ELSE [err |-> "none",
                  ret |-> [kind |-> "impact", sector |-> sector, stage |-> stage,
                           impact |-> r.impact, severity |-> Severity(stage)]]

\* --------------------------------------------------------------- the state
VARIABLES
  disk,     \* FileNames -> file: the persisted documents
  backups,  \* BackupPaths -> file: the backup files
  clock,    \* the wall clock, in seconds
  kb,       \* Instances -> the instance's memory
  frames,   \* Threads -> the call the thread is in (SpecConc)
  lastOp,   \* the call that completed last: arguments, exception, value
  nupd,     \* update_regulation calls started
  crashed,  \* the process was stopped (SpecConc)
  detector, \* the guardian's CrisisDetector: initialized, loadshed_data
  out       \* the last calculator or detector call: arguments, exception, value

vars == <<disk, backups, clock, kb, frames, lastOp, nupd, crashed, detector, out>>

Threads == {"t1", "t2"}

\* The record of a completed call.
OpRecord(m) ==
  [op |-> m.f.op, inst |-> m.f.inst, arg |-> m.f.arg, doc |-> m.f.doc,
   err |-> m.err, ret |-> m.ret, loaded |-> m.f.loaded]

NoOp ==
  [op |-> "none", inst |-> "sars_monitor", arg |-> "", doc |-> NoDoc,
   err |-> "none", ret |-> NoRet, loaded |-> FALSE]

\* The data directory at process start: both shipped documents, or the
\* Section 12H document alone (the ETI document was never installed).
InitialDisks ==
  {[f \in FileNames |-> JsonDump(ShippedDoc)],
   [f \in FileNames |-> IF f = F12H THEN JsonDump(ShippedDoc) ELSE NoFile]}

\* At process start no backup exists and each agent has constructed its own
\* knowledge base.
Init ==
  /\ disk \in InitialDisks
  /\ backups = [p \in BackupPaths |-> NoFile]
  /\ clock = 0
  /\ kb = [i \in Instances |-> FreshKB]
  /\ frames = [t \in Threads |-> IdleFrame]
  /\ lastOp = NoOp
  /\ nupd = 0
  /\ crashed = FALSE
  /\ detector = FreshDetector
  /\ out = NoOut

\* A whole call by a single caller: the method runs to completion.
Call(f) ==
  \E m \in {Run(Config(kb[f.inst], disk, backups, f), clock)} :
  /\ kb' = [kb EXCEPT ![f.inst] = m.mem]
  /\ disk' = m.disk
  /\ backups' = m.backups
  /\ lastOp' = OpRecord(m)

\* The clock reaches the next second.
Tick ==
  /\ ~crashed
  /\ clock < MaxClock
  /\ clock' = clock + 1
  /\ lastOp' = [NoOp EXCEPT !.op = "tick"]
  /\ UNCHANGED <<disk, backups, kb, frames, nupd, crashed, detector, out>>

\* SARSKnowledgeBase.initialize on instance i.
initialize(i) ==
  /\ Call(NewFrame("initialize", i, "", NoDoc))
  /\ UNCHANGED <<clock, frames, nupd, crashed, detector, out>>

\* SARSKnowledgeBase.query on instance i.
query(i) ==
  /\ Call(NewFrame("query", i, "", NoDoc))
  /\ UNCHANGED <<clock, frames, nupd, crashed, detector, out>>

\* SARSKnowledgeBase.get_regulation_details on instance i.
get_regulation_details(i, regulation) ==
  /\ Call(NewFrame("get_regulation_details", i, regulation, NoDoc))
  /\ UNCHANGED <<clock, frames, nupd, crashed, detector, out>>

\* The monitor's tool update_sars_regulation: update_regulation on the
\* monitor's own instance; any exception becomes the failure text.
update_sars_regulation(regulation_type, new_data) ==
  /\ nupd < MaxUpdates
  /\ nupd' = nupd + 1
  /\ Call(NewFrame("update_regulation", "sars_monitor", regulation_type, new_data))
  /\ UNCHANGED <<clock, frames, crashed, detector, out>>

\* The arguments of update_sars_regulation: a known regulation type with any
\* document, or an unknown type.
UpdateArgs == ((DOMAIN file_map) \X Docs) \cup ({"vat"} \X ValidDocs)

\* One store and its single caller: the monitor's knowledge base.
Next ==
  \/ Tick
  \/ initialize("sars_monitor")
  \/ query("sars_monitor")
  \/ \E n \in RegulationNames : get_regulation_details("sars_monitor", n)
  \/ \E a \in UpdateArgs : update_sars_regulation(a[1], a[2])

Spec == Init /\ [][Next]_vars

\* The two agents, each with its own store over the same data directory:
\* the monitor loads and updates, the sentinel loads and searches.
NextAgents ==
  \/ Tick
  \/ \E i \in Instances : initialize(i)
  \/ \E i \in Instances : query(i)
  \/ \E a \in (DOMAIN file_map) \X ValidDocs : update_sars_regulation(a[1], a[2])

SpecAgents == Init /\ [][NextAgents]_vars

\* ------------------------------------------------------ concurrent callers
\* A thread whose call has returned or raised.
FinishedFrame == [IdleFrame EXCEPT !.op = "finished"]

\* The store as initialize() leaves it when run on the files in dsk by a
\* single caller.
Loaded(i, dsk) ==
  Run(Config(FreshKB, dsk, [p \in BackupPaths |-> NoFile],
             NewFrame("initialize", i, "", NoDoc)), 0).mem

\* The two threads start on a complete data directory, in a process whose
\* stores are newly constructed or were loaded at start-up by their agents.
InitConc ==
  /\ disk = [f \in FileNames |-> JsonDump(ShippedDoc)]
  /\ backups = [p \in BackupPaths |-> NoFile]
  /\ clock = 0
  /\ kb \in {[i \in Instances |-> FreshKB], [i \in Instances |-> Loaded(i, disk)]}
  /\ frames = [t \in Threads |-> IdleFrame]
  /\ lastOp = NoOp
  /\ nupd = 0
  /\ crashed = FALSE
  /\ detector = FreshDetector
  /\ out = NoOut

\* Thread t enters a method (each thread makes one call).
Begin(t, f) ==
  /\ ~crashed
  /\ frames[t].op = "idle"
  /\ frames' = [frames EXCEPT ![t] = f]
  /\ UNCHANGED lastOp

begin_initialize(t, i) ==
  /\ Begin(t, NewFrame("initialize", i, "", NoDoc))
  /\ UNCHANGED <<disk, backups, clock, kb, nupd, crashed, detector, out>>

begin_query(t, i) ==
  /\ Begin(t, NewFrame("query", i, "", NoDoc))
  /\ UNCHANGED <<disk, backups, clock, kb, nupd, crashed, detector, out>>

begin_update(t, regulation_type, new_data) ==
  /\ nupd < MaxUpdates
  /\ nupd' = nupd + 1
  /\ Begin(t, NewFrame("update_regulation", "sars_monitor", regulation_type, new_data))
  /\ UNCHANGED <<disk, backups, clock, kb, crashed, detector, out>>

\* Thread t executes the statement it is at; the call's record is kept when
\* it returns or raises.
step(t) ==
  /\ ~crashed
  /\ frames[t].op \notin {"idle", "finished"}
  /\ \E m \in {Step(Config(kb[frames[t].inst], disk, backups, frames[t]), clock)} :
       /\ kb' = [kb EXCEPT ![frames[t].inst] = m.mem]
       /\ disk' = m.disk
       /\ backups' = m.backups
       /\ IF Finished(m)
          THEN /\ frames' = [frames EXCEPT ![t] = FinishedFrame]
               /\ lastOp' = OpRecord(m)
          ELSE /\ frames' = [frames EXCEPT ![t] = m.f]
               /\ UNCHANGED lastOp
  /\ UNCHANGED <<clock, nupd, crashed, detector, out>>

\* The process is stopped (killed, power loss) while a call is in progress:
\* every thread stays where it was and the files keep what was written.
crash ==
  /\ ~crashed
  /\ \E t \in Threads : frames[t].op \notin {"idle", "finished"}
  /\ crashed' = TRUE
  /\ UNCHANGED <<disk, backups, clock, kb, frames, lastOp, nupd, detector, out>>

\* Two threads of one process call the monitor's store with no coordination
\* (the class takes no lock); updates carry complete documents.
NextConc ==
  \/ Tick
  \/ \E t \in Threads : begin_initialize(t, "sars_monitor")
  \/ \E t \in Threads : begin_query(t, "sars_monitor")
  \/ \E t \in Threads, a \in (DOMAIN file_map) \X ValidDocs : begin_update(t, a[1], a[2])
  \/ \E t \in Threads : step(t)
  \/ crash

SpecConc == InitConc /\ [][NextConc]_vars

\* ------------------------------------------------- the calculators' callers
\* The store a calculator computes on: the instance's own when it is
\* initialized, otherwise what "if not self.initialized: self.initialize()"
\* at the head of the calculator makes of it (or the exception it raises).
LazyLoaded(i) ==
  IF kb[i].initialized
  THEN Config(kb[i], disk, backups, [IdleFrame EXCEPT !.inst = i])
  ELSE Run(Config(kb[i], disk, backups, NewFrame("initialize", i, "", NoDoc)), clock)

\* SARSKnowledgeBase.calculate_section_12h on instance i.  (A calculator
\* keeps nothing from one call to the next but the loaded store, so a
\* behaviour makes one calculator call, before or after a load.)
calculate_section_12h(i, learnerships) ==
  /\ out.op = "none"
  /\ \E m \in {LazyLoaded(i)} :
       /\ kb' = [kb EXCEPT ![i] = m.mem]
       /\ out' = OutRecord("calculate_section_12h", learnerships,
                           IF m.err # "none" THEN [err |-> m.err, ret |-> NoResult]
                           ELSE Section12HResult(m.mem, learnerships))
  /\ UNCHANGED <<disk, backups, clock, frames, lastOp, nupd, crashed, detector>>

\* SARSKnowledgeBase.calculate_eti on instance i.
calculate_eti(i, employees) ==
  /\ out.op = "none"
  /\ \E m \in {LazyLoaded(i)} :
       /\ kb' = [kb EXCEPT ![i] = m.mem]
       /\ out' = OutRecord("calculate_eti", employees,
                           IF m.err # "none" THEN [err |-> m.err, ret |-> NoResult]
                           ELSE ETIResult(m.mem, employees))
  /\ UNCHANGED <<disk, backups, clock, frames, lastOp, nupd, crashed, detector>>

\* The data directory holds some complete version of the two documents (or
\* lacks the ETI document) and the sentinel has constructed its store.
InitCalc ==
  /\ disk \in InitialDisks \cup {[f \in FileNames |-> JsonDump(d)] : d \in ValidDocs}
  /\ backups = [p \in BackupPaths |-> NoFile]
  /\ clock = 0
  /\ kb = [i \in Instances |-> FreshKB]
  /\ frames = [t \in Threads |-> IdleFrame]
  /\ lastOp = NoOp
  /\ nupd = 0
  /\ crashed = FALSE
  /\ detector = FreshDetector
  /\ out = NoOut

\* The sentinel's two calculator tools, on the sentinel's store, loaded
\* beforehand or by the calculator itself.
NextCalc ==
  \/ /\ out.op = "none"
     /\ initialize("financial_sentinel")
  \/ /\ out.op = "none"
     /\ \E l \in ListsOf(Learners, MaxPeople) :
          calculate_section_12h("financial_sentinel", l)
  \/ /\ out.op = "none"
     /\ \E e \in ListsOf(Employees, MaxPeople) :
          calculate_eti("financial_sentinel", e)

SpecCalc == InitCalc /\ [][NextCalc]_vars

\* The sentinel's Section 12H calculator beside the monitor's updates of
\* the Section 12H document: the sentinel loads (or leaves the load to the
\* calculator), the monitor replaces the document, and one list of one
\* learner is calculated.
NextCalcAfterUpdate ==
  \/ /\ out.op = "none"
     /\ initialize("financial_sentinel")
  \/ /\ out.op = "none"
     /\ \E new_data \in ValidDocs : update_sars_regulation("section_12h", new_data)
  \/ /\ out.op = "none"
     /\ \E learner \in Learners :
          calculate_section_12h("financial_sentinel", <<learner>>)

SpecCalcAfterUpdate == Init /\ [][NextCalcAfterUpdate]_vars

\* ------------------------------------------------- the detector's callers
\* The metric snapshots a caller may pass: each metric absent or on a value
\* on both sides of its threshold, 0 included.
EafValues == {0, 59, 60, 64, 65}
OutageValues == {0, 15000, 15001}
CoalValues == {0, 19, 20}
MetricSnapshots ==
  {m \in UNION {[keys -> EafValues \cup OutageValues \cup CoalValues] :
                  keys \in SUBSET {"eaf", "unplanned_outages_mw", "coal_stockpile_days"}} :
     /\ "eaf" \in DOMAIN m => m["eaf"] \in EafValues
     /\ "unplanned_outages_mw" \in DOMAIN m => m["unplanned_outages_mw"] \in OutageValues
     /\ "coal_stockpile_days" \in DOMAIN m => m["coal_stockpile_days"] \in CoalValues}

\* The sectors and stages a caller may ask about.
Sectors == {"manufacturing", "retail", "it_services", "sme_services", "mining"}
Stages == 0..7

\* CrisisDetector.initialize (awaited by GuardianEngineAgent.initialize).
detector_initialize ==
  /\ \E file \in CrisisFiles :
       \E r \in {DetectorInitialize(detector, file)} :
         /\ detector' = r.detector
         /\ out' = OutRecord("initialize", <<>>, [err |-> r.err, ret |-> NoResult])
  /\ UNCHANGED <<disk, backups, clock, kb, frames, lastOp, nupd, crashed>>

\* CrisisDetector.assessLoadsheddingRisk.
assessLoadsheddingRisk(metrics) ==
  /\ out' = OutRecord("assessLoadsheddingRisk", metrics, AssessResult(detector, metrics))
  /\ UNCHANGED <<disk, backups, clock, kb, frames, lastOp, nupd, crashed, detector>>

\* The guardian's tool assess_loadshedding_risk; the tools are registered
\* once the detector is initialized.
assess_loadshedding_risk(eaf, unplanned_outages_mw, coal_stockpile_days) ==
  /\ detector.initialized
  /\ out' = OutRecord("assess_loadshedding_risk",
                      Supplied(eaf, unplanned_outages_mw, coal_stockpile_days),
                      AssessResult(detector,
                                   ToolMetrics(eaf, unplanned_outages_mw,
                                               coal_stockpile_days)))
  /\ UNCHANGED <<disk, backups, clock, kb, frames, lastOp, nupd, crashed, detector>>

\* CrisisDetector.getBusinessImpact.
getBusinessImpact(sector, stage) ==
  /\ out' = OutRecord("getBusinessImpact", <<sector, stage>>,
                      BusinessImpactResult(detector, sector, stage))
  /\ UNCHANGED <<disk, backups, clock, kb, frames, lastOp, nupd, crashed, detector>>

\* What a call of the Cohere rerank API may do: return its ranking, raise
\* (the service or the network failed) or raise on the client's timeout.
RerankOutcomes == {"ranked", "failed", "timed out"}
CrisisQueries == {"load-shedding stage 4", "strike"}

\* CrisisDetector.query, lines 67-89, on a loaded detector: the rerank call
\* and the response built from its results.  The call is made without a
\* try, so what it raises leaves query.
Rerank(q, topN, outcome) ==
  IF outcome = "ranked"
  THEN [err |-> "none", ret |-> [kind |-> "reranked", query |-> q, top_n |-> topN]]
  ELSE [err |-> "CohereError", ret |-> NoResult]

\* CrisisDetector.query: initialize first when not initialized.
detector_query(q, topN, outcome) ==
  /\ \E file \in CrisisFiles :
       \E r \in {IF detector.initialized THEN [detector |-> detector, err |-> "none"]
                 ELSE DetectorInitialize(detector, file)} :
         /\ detector' = r.detector
         /\ out' = OutRecord("CrisisDetector.query",
                             [query |-> q, rerank |-> outcome],
                             IF r.err # "none" THEN [err |-> r.err, ret |-> NoResult]
                             ELSE Rerank(q, topN, outcome))
  /\ UNCHANGED <<disk, backups, clock, kb, frames, lastOp, nupd, crashed>>

\* The guardian's tool query_crisis_intelligence: it awaits query with
\* topN=3 outside any try.
query_crisis_intelligence(q, outcome) ==
  /\ detector.initialized
  /\ out' = OutRecord("query_crisis_intelligence",
                      [query |-> q, rerank |-> outcome],
                      Rerank(q, 3, outcome))
  /\ UNCHANGED <<disk, backups, clock, kb, frames, lastOp, nupd, crashed, detector>>

\* The guardian's detector and its callers.
NextRisk ==
  \/ \E q \in CrisisQueries, outcome \in RerankOutcomes :
       detector_query(q, 3, outcome)
  \/ \E q \in CrisisQueries, outcome \in RerankOutcomes :
       query_crisis_intelligence(q, outcome)
  \/ detector_initialize
  \/ \E metrics \in MetricSnapshots : assessLoadsheddingRisk(metrics)
  \/ \E eaf \in EafValues,
        outages \in {None} \cup {Some(v) : v \in OutageValues},
        coal \in {None} \cup {Some(v) : v \in CoalValues} :
       assess_loadshedding_risk(eaf, outages, coal)
  \/ \E sector \in Sectors, stage \in Stages : getBusinessImpact(sector, stage)

SpecRisk == Init /\ [][NextRisk]_vars

\* ------------------------------------------------------------- the search
\* str.lower(), character by character.
UpperCase == "ABCDEFGHIJKLMNOPQRSTUVWXYZ"
LowerCase == "abcdefghijklmnopqrstuvwxyz"
LowerChar(c) ==
  IF \E i \in 1..Len(UpperCase) : SubSeq(UpperCase, i, i) = c
  THEN LET i == CHOOSE j \in 1..Len(UpperCase) : SubSeq(UpperCase, j, j) = c
       IN  SubSeq(LowerCase, i, i)
  ELSE c

\* (The string is lowered half by half to keep the evaluation shallow.)
RECURSIVE Lower(_)
Lower(s) ==
  IF Len(s) = 0 THEN ""
  ELSE IF Len(s) = 1 THEN LowerChar(s)
  ELSE Lower(SubSeq(s, 1, Len(s) \div 2)) \o Lower(SubSeq(s, Len(s) \div 2 + 1, Len(s)))

\* str.split(): the maximal runs of characters that are not whitespace.
Whitespace == {" ", "\t", "\n"}

RECURSIVE SplitFrom(_, _, _)
SplitFrom(s, word, words) ==
  IF s = "" THEN (IF word = "" THEN words ELSE Append(words, word))
  ELSE IF Head(s) \in Whitespace
    THEN SplitFrom(Tail(s), "", IF word = "" THEN words ELSE Append(words, word))
  ELSE SplitFrom(Tail(s), word \o Head(s), words)

Split(s) == SplitFrom(s, "", <<>>)

\* Python's "word in text" on strings: word is a substring of text.
In(word, text) ==
  \E i \in 0..(Len(text) - Len(word)) : SubSeq(text, i + 1, i + Len(word)) = word

\* The text a field of the document reads as.  The documents are data, so
\* the text only tells the versions apart.
Digits == "0123456789"
Text(ver) == "v" \o SubSeq(Digits, ver + 1, ver + 1)

\* The 'content' string of a knowledge item: the literal text of its
\* f-string with the document's fields filled in.
Content(item) ==
  LET t == Text(item.content) name == item.id.name IN
  CASE name = "section_12h_overview" ->
         t \o ": " \o t \o ". Status: " \o t \o ". Annual allowances: NQF 1-6 able-bodied R"
           \o t \o ", disability R" \o t \o ". NQF 7-10 able-bodied R" \o t
           \o ", disability R" \o t \o "."
    [] name = "section_12h_completion" ->
         "Once-off completion allowances: NQF 1-6 able-bodied R" \o t
           \o ", disability R" \o t \o ". NQF 7-10 able-bodied R" \o t
           \o ", disability R" \o t
           \o ". For learnerships over 24 months, allowance is multiplied by number of consecutive 12-month periods."
    [] name = "section_12h_eligibility" ->
         "Employer eligibility: " \o t \o ". Learner eligibility: " \o t \o "."
    [] name = "section_12h_documentation" ->
         "Required documents: " \o t \o ". Proof of registration: " \o t
           \o ". Proof of completion: " \o t \o ". Learner details: " \o t \o "."
    [] name = "section_12h_mistakes" ->
         "Common mistakes to avoid: " \o t \o "."
    [] name = "eti_overview" ->
         t \o ": " \o t \o ". Effective from " \o t \o ". Qualifying threshold: " \o t
           \o ". Minimum hours: " \o t
           \o " per month. First 12 months: Up to R1,500/month. Second 12 months: Up to R750/month."
    [] name = "eti_eligibility" ->
         "Employee requirements: Age " \o t \o ", " \o t \o ", " \o t \o ", " \o t
           \o ". Employer requirements: " \o t \o "."
    [] name = "eti_claiming" ->
         "Claiming frequency: " \o t \o ". Reconciliation: " \o t \o ". Certificate: "
           \o t \o ". Audit trail: " \o t \o "."
    [] OTHER -> "Example: " \o t \o ". " \o t

\* The 'keywords' list of a knowledge item.
Keywords(item) ==
  LET name == item.id.name IN
  CASE name = "section_12h_overview" ->
         <<"section 12h", "learnership", "nqf", "allowance", "deduction", "seta">>
    [] name = "section_12h_completion" ->
         <<"completion", "bonus", "once-off", "finished", "completed">>
    [] name = "section_12h_eligibility" ->
         <<"eligibility", "requirements", "qualify", "registered", "seta">>
    [] name = "section_12h_documentation" ->
         <<"documentation", "forms", "it180", "certificate", "proof">>
    [] name = "section_12h_mistakes" ->
         <<"mistakes", "errors", "avoid", "common", "problems">>
    [] name = "eti_overview" ->
         <<"eti", "employment tax incentive", "youth", "young workers", "18-29">>
    [] name = "eti_eligibility" ->
         <<"eligibility", "qualify", "age", "18-29", "citizen", "paye">>
    [] name = "eti_claiming" ->
         <<"claim", "emp201", "emp501", "paye", "monthly", "reconciliation">>
    [] OTHER -> <<"example", "calculation", "scenario">>

\* query, lines 217-220, with five points for every keyword the word is in.
WordScorePerKeyword(word, item) ==
  (IF In(word, Lower(Content(item))) THEN 10 ELSE 0)
  + 5 * Cardinality({k \in 1..Len(Keywords(item)) : In(word, Keywords(item)[k])})

\* query, lines 217-220: what one word of the query adds to an item's score.
WordScore(word, item) ==
  (IF In(word, Lower(Content(item))) THEN 10 ELSE 0)
  + (IF \E k \in 1..Len(Keywords(item)) : In(word, Keywords(item)[k]) THEN 5 ELSE 0)

\* query, lines 213-220: the loop over the words of the query.
RECURSIVE Score(_, _)
Score(words, item) ==
  IF words = <<>> THEN 0
  ELSE WordScore(Head(words), item) + Score(Tail(words), item)

\* query, lines 222-226: {**item, 'relevance_score': score}.
Scored(item, score) == item @@ [relevance_score |-> score]

\* query, lines 212-226: the loop over the knowledge items.
RECURSIVE Scan(_, _, _)
Scan(words, knowledge_base, results) ==
  IF knowledge_base = <<>> THEN results
  ELSE LET item == Head(knowledge_base)
           score == Score(words, item)
       IN  Scan(words, Tail(knowledge_base),
                IF score > 0 THEN Append(results, Scored(item, score)) ELSE results)

\* An insertion that puts an entry before the entries of equal score.
RECURSIVE InsertBefore(_, _)
InsertBefore(sorted, x) ==
  IF sorted = <<>> THEN <<x>>
  ELSE IF Head(sorted).relevance_score > x.relevance_score
    THEN <<Head(sorted)>> \o InsertBefore(Tail(sorted), x)
  ELSE <<x>> \o sorted

\* query, line 229: list.sort(key=relevance_score, reverse=True) is stable;
\* an entry goes behind every entry of greater or equal score that precedes
\* it in the list.
RECURSIVE Insert(_, _)
Insert(sorted, x) ==
  IF sorted = <<>> THEN <<x>>
  ELSE IF Head(sorted).relevance_score >= x.relevance_score
    THEN <<Head(sorted)>> \o Insert(Tail(sorted), x)
  ELSE <<x>> \o sorted

RECURSIVE SortFrom(_, _)
SortFrom(results, sorted) ==
  IF results = <<>> THEN sorted
  ELSE SortFrom(Tail(results), Insert(sorted, Head(results)))

Sort(results) == SortFrom(results, <<>>)

\* query, line 231: results[:top_n].  A negative top_n counts from the end
\* of the list.
SliceTo(results, top_n) ==
  LET stop == IF top_n >= 0
              THEN (IF top_n < Len(results) THEN top_n ELSE Len(results))
              ELSE (IF Len(results) + top_n > 0 THEN Len(results) + top_n ELSE 0)
  IN  SubSeq(results, 1, stop)

\* A query that sorts the knowledge items themselves by their score.
QuerySortsInPlace(mem, query_text, top_n) ==
  LET all == Sort([j \in 1..Len(mem.knowledge_base) |->
                     Scored(mem.knowledge_base[j],
                            Score(Split(Lower(query_text)), mem.knowledge_base[j]))])
  IN  [mem |-> [mem EXCEPT !.knowledge_base =
                  [j \in 1..Len(all) |->
                     [f \in DOMAIN mem.knowledge_base[1] |-> all[j][f]]]],
       err |-> "none",
       ret |-> [kind |-> "results",
                results |-> SliceTo(SelectSeq(all, LAMBDA r : r.relevance_score > 0),
                                    top_n)]]

\* query, lines 209-231, on a loaded store: the store it leaves and the
\* list it returns.
Query(mem, query_text, top_n) ==
  [mem |-> mem,
   err |-> "none",
   ret |-> [kind |-> "results",
            results |-> SliceTo(Sort(Scan(Split(Lower(query_text)),
                                          mem.knowledge_base, <<>>)),
                                top_n)]]

\* The queries a caller may make: no word, a word in upper case, two words,
\* one word twice, a part of a word, a word of no item, a word of the
\* documents' text; and the number of results asked for (3 by default).
Queries ==
  {"", "  ", "NQF", "Seta", "seta  eligibility", "seta seta", "complet", "vat",
   "v1", "Example ETI", "proof of", "12"}
TopNs == {-1, 0, 1, 3}

\* SARSKnowledgeBase.query(query_text, top_n) on instance i.
query_top_n(i, query_text, top_n) ==
  /\ out.op = "none"
  /\ \E m \in {LazyLoaded(i)} :
       IF m.err # "none"
       THEN /\ kb' = [kb EXCEPT ![i] = m.mem]
            /\ out' = OutRecord("query", [query_text |-> query_text, top_n |-> top_n],
                                [err |-> m.err, ret |-> NoResult])
       ELSE \E r \in {Query(m.mem, query_text, top_n)} :
              /\ kb' = [kb EXCEPT ![i] = r.mem]
              /\ out' = OutRecord("query", [query_text |-> query_text, top_n |-> top_n], r)
  /\ UNCHANGED <<disk, backups, clock, frames, lastOp, nupd, crashed, detector>>

\* The sentinel's store, loaded beforehand or by the query itself, and one
\* query on it.
NextSearch ==
  \/ /\ out.op = "none"
     /\ initialize("financial_sentinel")
  \/ /\ out.op = "none"
     /\ \E query_text \in Queries, top_n \in TopNs :
          query_top_n("financial_sentinel", query_text, top_n)

SpecSearch == InitCalc /\ [][NextSearch]_vars

\* ------------------------------------------------------------------ claims
\* The step just taken was a call of update_regulation that passed the type
\* check, and the document it replaces was persisted before the call.
UpdateReplaced ==
  /\ lastOp'.op = "update_regulation"
  /\ lastOp'.arg \in {"section_12h", "eti"}
  /\ disk[file_map[lastOp'.arg]].exists

\* C1: every update that replaces a persisted document creates exactly one
\* new backup, and that backup holds the content persisted before the call
\* (also for two updates of the same regulation within one clock second).
C1_OneNewBackupPerUpdate ==
  [][UpdateReplaced =>
       \E p \in BackupPaths :
         /\ p[1] = file_map[lastOp'.arg]
         /\ ~backups[p].exists
         /\ backups'[p] = disk[p[1]]
         /\ \A q \in BackupPaths \ {p} : backups'[q] = backups[q]]_vars

\* What get_regulation_details(regulation) returns when called now on the
\* monitor's store: the exception and the value.
GetNow(regulation) ==
  LET m == Run(Config(kb["sars_monitor"], disk, backups,
                      NewFrame("get_regulation_details", "sars_monitor",
                               regulation, NoDoc)), clock)
  IN [err |-> m.err, ret |-> m.ret]

Returned(doc) == [err |-> "none", ret |-> [kind |-> "doc", doc |-> doc, items |-> <<>>]]

UpdateSucceeded == lastOp.op = "update_regulation" /\ lastOp.err = "none"

UpperNameOf(regulation_type) ==
  IF regulation_type = "section_12h" THEN "SECTION 12H" ELSE "ETI"

RequiredFields(regulation_type) ==
  IF regulation_type = "section_12h"
  THEN {"description", "calculation_examples", "last_updated"}
  ELSE {"description", "calculation_examples"}

\* C6: an update whose newRuleSet lacks a field that load or the index build
\* requires fails and leaves the persisted document, the backups and the
\* in-memory store unchanged.
C6_InvalidUpdateTouchesNothing ==
  [][(/\ lastOp'.op = "update_regulation"
      /\ lastOp'.arg \in {"section_12h", "eti"}
      /\ lastOp'.doc.missing \in RequiredFields(lastOp'.arg))
     => /\ lastOp'.err # "none"
        /\ disk' = disk
        /\ backups' = backups
        /\ kb' = kb]_vars

\* C7: update with a regulation type that is not known fails with the
\* unknown-regulation error (ValueError) and leaves the persisted documents,
\* the backups and the in-memory store unchanged.
C7_UnknownTypeRejected ==
  [][(lastOp'.op = "update_regulation" /\ lastOp'.arg \notin {"section_12h", "eti"})
     => /\ lastOp'.err = "ValueError"
        /\ disk' = disk
        /\ backups' = backups
        /\ kb' = kb]_vars

\* C7 witness: an update of the unknown type "vat" was rejected on a store
\* that was loaded and after an earlier update had written a backup.
C7_Witness ==
  /\ lastOp.op = "update_regulation"
  /\ lastOp.arg = "vat"
  /\ lastOp.err = "ValueError"
  /\ kb["sars_monitor"].initialized
  /\ \E p \in BackupPaths : backups[p].exists

\* The errors a load raises for a missing or structurally invalid document.
LoadErrors == {"FileNotFoundError", "JSONDecodeError", "KeyError"}

\* C8: when a load fails (the first load, or the reload inside update), the
\* store is uninitialized afterwards, so nothing read during the failed load
\* is served to a later reader.
C8_FailedLoadLeavesUninitialized ==
  (lastOp.loaded /\ lastOp.err \in LoadErrors) => ~kb[lastOp.inst].initialized

\* The step just taken was get_regulation_details on an uninitialized store.
GetOnUninitialized ==
  /\ lastOp'.op = "get_regulation_details"
  /\ ~kb[lastOp'.inst].initialized

PersistedDetails(regulation) ==
  IF Upper(regulation) = "SECTION 12H"
    THEN [kind |-> "doc", doc |-> disk[F12H].body, items |-> <<>>]
  ELSE IF Upper(regulation) = "ETI"
    THEN [kind |-> "doc", doc |-> disk[FETI].body, items |-> <<>>]
  ELSE [kind |-> "None", doc |-> NoDoc, items |-> <<>>]

BuildFrom(d12, deti) ==
  Run(Config([FreshKB EXCEPT !.section12h_data = d12, !.eti_data = deti],
             disk, backups,
             [NewFrame("initialize", "sars_monitor", "", NoDoc)
                EXCEPT !.at = "build_reset"]), 0).mem.knowledge_base

\* C10: after a completed load or update, the knowledge items every consumer
\* of the store searches (the sentinel's as well as the monitor's) are those
\* derived from the rule sets persisted now; none answers from a snapshot
\* taken before an update.
C10_IndexReflectsPersisted ==
  \A i \in Instances :
    kb[i].initialized =>
      kb[i].knowledge_base = BuildFrom(disk[F12H].body, disk[FETI].body)

\* A thread is inside update_regulation's backup-then-replace sequence for
\* a file: its backup write has begun (or was skipped and its replacement
\* write is next) and its replacement write has not completed.
InBackupReplace(t, file) ==
  /\ frames[t].op = "update_regulation"
  /\ frames[t].at \in {"copy_write", "open_w", "dump"}
  /\ file_map[frames[t].arg] = file

\* C3: the backup-then-replace sequences of two concurrent updates of one
\* regulation never interleave: no caller's backup write begins before the
\* other caller's replacement write has completed.
C3_BackupReplaceExclusive ==
  \A file \in FileNames :
    \A t, u \in Threads :
      (t # u) => ~(InBackupReplace(t, file) /\ InBackupReplace(u, file))

\* C4: a reader running concurrently with load or update never observes a
\* half-written state: the items a search scans are the complete build of
\* the two rule sets of one load.
C4_ReaderSeesCompleteLoad ==
  (lastOp.op = "query" /\ lastOp.err = "none") =>
    \E d12 \in ValidDocs, deti \in ValidDocs :
      lastOp.ret.items = BuildFrom(d12, deti)

\* The statements of update_regulation after the replacement write.
AfterDump == {"reload", "open_12h", "open_eti", "build_reset", "append",
              "set_initialized", "print"}

\* C5: if the process stops at any step of update, the persisted current
\* document is a whole document (the old or the new one, never empty or
\* partly written), and once it is the new one the backup is whole as well.
C5_CrashLeavesWholeDocument ==
  crashed =>
    /\ \A file \in FileNames : disk[file].exists => disk[file].body # NoDoc
    /\ \A t \in Threads :
         (frames[t].op = "update_regulation" /\ frames[t].at \in AfterDump) =>
           LET p == BackupPath(file_map[frames[t].arg], frames[t].ts) IN
           backups[p].exists => backups[p].body # NoDoc

\* C11: no update deletes or overwrites a backup created by an earlier
\* update: a backup, once written, keeps its content through every later
\* step, so every superseded version stays retrievable.
C11_BackupsNeverOverwritten ==
  [][\A p \in BackupPaths : backups[p].exists => backups'[p] = backups[p]]_vars

\* The sum of the per-learner totals of a breakdown.
RECURSIVE SumTotals(_)
SumTotals(breakdown) ==
  IF breakdown = <<>> THEN 0 ELSE Head(breakdown).total + SumTotals(Tail(breakdown))

\* The last call was calculate_section_12h and the store it ran on is loaded.
Section12HCalled ==
  out.op = "calculate_section_12h" /\ kb["financial_sentinel"].initialized

\* C12: for every learner list, the empty one included, the calculator
\* returns without error a total equal to the sum of the per-learner totals
\* of the breakdown, and a tax saving equal to that total times 28/100
\* (zero totals for the empty list).
C12_TotalsAndTaxSaving ==
  Section12HCalled =>
    /\ out.err = "none"
    /\ out.ret.total_recovery = SumTotals(out.ret.breakdown)
    /\ out.ret.tax_saving_28_percent =
         [hundredths |-> out.ret.total_recovery * 28, ulps |-> 0]
    /\ out.input = <<>> => out.ret.total_recovery = 0

\* C13: a learner list holding a qualification band outside 1..10 makes the
\* calculator fail with InvalidInputError and return no result.
C13_OutOfRangeBandRejected ==
  (/\ Section12HCalled
   /\ \E j \in DOMAIN out.input : out.input[j].nqf_level \notin 1..10)
  => (out.err = "InvalidInputError" /\ out.ret = NoResult)

\* An employee passes both tests of the incentive: age within 18..29 and
\* salary below 7500.
PassesBoth(employee) ==
  /\ employee.age >= 18 /\ employee.age <= 29
  /\ employee.monthly_salary < 7500

AgeAndSalary(record, salary) == <<record.age, record[salary]>>

ETIReturned == out.op = "calculate_eti" /\ out.err = "none"

\* C14: the breakdown holds exactly the employees that pass both tests, in
\* the order given (none whose age is outside 18..29 or whose salary is 7500
\* or more), and qualifying_employees is the number of breakdown entries.
C14_OnlyEligibleCounted ==
  ETIReturned =>
    LET passing == SelectSeq(out.input, PassesBoth) IN
    /\ out.ret.qualifying_employees = Len(out.ret.breakdown)
    /\ Len(out.ret.breakdown) = Len(passing)
    /\ \A j \in DOMAIN out.ret.breakdown :
         AgeAndSalary(out.ret.breakdown[j], "salary") =
           AgeAndSalary(passing[j], "monthly_salary")

\* C14 witness: a call with an employee aged 30 and an employee aged 29 on
\* salary 7499 counted one qualifying employee.
C14_Witness ==
  /\ ETIReturned
  /\ Len(out.input) = 2
  /\ out.input[1].age = 30
  /\ out.input[2].age = 29 /\ out.input[2].monthly_salary = 7499
  /\ out.ret.qualifying_employees = 1

\* What the result pays for the employee on a given salary (nothing when the
\* employee is not in the breakdown), in thousandths of a rand.
PaidAt(breakdown, salary) ==
  IF \E j \in DOMAIN breakdown : breakdown[j].salary = salary
  THEN breakdown[CHOOSE j \in DOMAIN breakdown : breakdown[j].salary = salary].monthly_eti
  ELSE 0

\* Two employees of eligible age and equal tenure whose salaries are one rand
\* apart.
AdjacentPair ==
  /\ Len(out.input) = 2
  /\ out.input[1].age \in 18..29 /\ out.input[2].age \in 18..29
  /\ MonthsEmployed(out.input[1]) = MonthsEmployed(out.input[2])
  /\ out.input[2].monthly_salary = out.input[1].monthly_salary + 1

Distance(a, b) == IF a >= b THEN a - b ELSE b - a

\* C15: in both tenure bands the monthly incentive has no jump and is never
\* negative: one rand more of salary changes it by at most three quarters
\* of a rand (the steepest slope), across 0, 2500, 5500 and the ceiling 7500,
\* and every incentive paid is zero or more, for negative salaries too.
C15_ContinuousAndNonNegative ==
  ETIReturned =>
    /\ out.ret.monthly_eti >= 0
    /\ \A j \in DOMAIN out.ret.breakdown : out.ret.breakdown[j].monthly_eti >= 0
    /\ AdjacentPair =>
         Distance(PaidAt(out.ret.breakdown, out.input[1].monthly_salary),
                  PaidAt(out.ret.breakdown, out.input[2].monthly_salary)) <= 750

\* C15 witness: two later-tenure employees on 7499 and 7500: the first is
\* paid 0.375 rand, the second is at the ceiling and paid nothing.
C15_Witness ==
  /\ ETIReturned
  /\ AdjacentPair
  /\ MonthsEmployed(out.input[1]) = 13
  /\ out.input[1].monthly_salary = 7499
  /\ PaidAt(out.ret.breakdown, 7499) = 375
  /\ Len(out.ret.breakdown) = 1

\* The last call was an assessment that returned a result.
AssessReturned ==
  /\ out.op \in {"assessLoadsheddingRisk", "assess_loadshedding_risk"}
  /\ out.err = "none"

\* The order of the tiers: Low < Medium < High < Critical.
TierRank(tier) ==
  CASE tier = "Low" -> 0 [] tier = "Medium" -> 1 [] tier = "High" -> 2
    [] tier = "Critical" -> 3

\* The highest tier among the reported indicators, Low when there is none.
MaxTier(risks) ==
  IF risks = <<>> THEN "Low"
  ELSE risks[CHOOSE j \in DOMAIN risks :
               \A k \in DOMAIN risks :
                 TierRank(risks[k].risk_level) <= TierRank(risks[j].risk_level)].risk_level

\* C16: the overall tier of an assessment is the maximum tier among the
\* triggered indicators it reports, and Low with alert GREEN when it
\* reports none.
C16_OverallIsMaxTier ==
  AssessReturned =>
    /\ out.ret.overall_risk = MaxTier(out.ret.risks)
    /\ out.ret.risks = <<>> =>
         (out.ret.overall_risk = "Low" /\ out.ret.alert_level = "GREEN")

\* C16 witness: an assessment that reports a High and a Medium indicator
\* and is High overall.
C16_Witness ==
  /\ AssessReturned
  /\ Len(out.ret.risks) = 2
  /\ out.ret.risks[1].risk_level = "High"
  /\ out.ret.risks[2].risk_level = "Medium"
  /\ out.ret.overall_risk = "High"

\* The indicators whose threshold condition holds on the supplied values.
HoldingIndicators(metrics) ==
  {ind \in {"Energy Availability Factor below 60%",
            "Energy Availability Factor below 65%",
            "Unplanned outages above 15,000 MW",
            "Coal stockpile below 20 days"} :
     CASE ind = "Energy Availability Factor below 60%" ->
            "eaf" \in DOMAIN metrics /\ metrics["eaf"] < 60
       [] ind = "Energy Availability Factor below 65%" ->
            "eaf" \in DOMAIN metrics /\ metrics["eaf"] < 65
       [] ind = "Unplanned outages above 15,000 MW" ->
            "unplanned_outages_mw" \in DOMAIN metrics
              /\ metrics["unplanned_outages_mw"] > 15000
       [] OTHER ->
            "coal_stockpile_days" \in DOMAIN metrics
              /\ metrics["coal_stockpile_days"] < 20}

\* C17: the triggered indicators of an assessment are exactly the indicators
\* whose threshold condition holds on the supplied metric values, the value
\* 0 included.
C17_ExactlyHoldingIndicators ==
  AssessReturned =>
    {out.ret.risks[j].indicator : j \in DOMAIN out.ret.risks} =
      HoldingIndicators(out.input)

\* The alert level of a tier.
AlertOf(tier) ==
  CASE tier = "Low" -> "GREEN" [] tier = "Medium" -> "YELLOW"
    [] tier = "High" -> "ORANGE" [] tier = "Critical" -> "RED"

\* C18: the alert level of every assessment is the one the overall tier maps
\* to (Low GREEN, Medium YELLOW, High ORANGE, Critical RED), whichever
\* indicators were triggered.
C18_AlertFollowsTier ==
  AssessReturned => out.ret.alert_level = AlertOf(out.ret.overall_risk)

\* C18 witness: a High availability indicator followed by the Critical
\* outages indicator and the Medium coal indicator: Critical and RED.
C18_Witness ==
  /\ AssessReturned
  /\ Len(out.ret.risks) = 3
  /\ out.ret.risks[1].risk_level = "High"
  /\ out.ret.overall_risk = "Critical"
  /\ out.ret.alert_level = "RED"

\* C19: the recommendations of an assessment are the list the table holds
\* for its overall tier, whichever and however many indicators it reports.
C19_RecommendationsOfOverallTier ==
  AssessReturned => out.ret.recommendations = recommendations_map[out.ret.overall_risk]

\* C19 witness: an assessment that reports only the Medium coal indicator
\* and recommends the Medium list.
C19_Witness ==
  /\ AssessReturned
  /\ Len(out.ret.risks) = 1
  /\ out.ret.overall_risk = "Medium"
  /\ out.ret.recommendations[1] = "Monitor Eskom announcements closely"

\* The last call was getBusinessImpact on an initialized detector.
ImpactCalled == out.op = "getBusinessImpact" /\ detector.initialized

\* The row of a sector in the loaded matrix.
LoadedRow(sector) == detector.loadshed_data[1].business_impact_matrix[sector]

\* C20: getBusinessImpact fails with the unknown-sector error for a sector
\* the matrix has no row for, and for a known sector and a stage without an
\* entry in the row it returns the text 'Unknown impact for this stage' as
\* the impact instead of failing.
C20_UnknownSectorAndStage ==
  ImpactCalled =>
    LET sector == out.input[1]
        stage == out.input[2] IN
    IF sector \notin DOMAIN detector.loadshed_data[1].business_impact_matrix
    THEN out.err = "Unknown sector" /\ out.ret = NoResult
    ELSE /\ out.err = "none"
         /\ stage \notin LoadedRow(sector).stages =>
              out.ret.impact = <<"Unknown impact for this stage">>
         /\ stage \in LoadedRow(sector).stages =>
              out.ret.impact = <<"impact", sector, stage>>

\* C20 witness: stage 6 of retail, whose row has entries for stages 2 and 4
\* only, returned the text.
C20_Witness ==
  /\ ImpactCalled
  /\ out.input = <<"retail", 6>>
  /\ out.err = "none"
  /\ out.ret.impact = <<"Unknown impact for this stage">>

\* A query returned its list.
QueryReturned == out.op = "query" /\ out.err = "none"

\* The tokens of a text: the positions <<first, last>> of its maximal runs
\* of characters that are not whitespace.
TokenSpans(s) ==
  {span \in (1..Len(s)) \X (1..Len(s)) :
     /\ span[1] <= span[2]
     /\ \A k \in span[1]..span[2] : SubSeq(s, k, k) \notin Whitespace
     /\ span[1] = 1 \/ SubSeq(s, span[1] - 1, span[1] - 1) \in Whitespace
     /\ span[2] = Len(s) \/ SubSeq(s, span[2] + 1, span[2] + 1) \in Whitespace}

\* The points one token earns an item: 10 if it appears in the content, plus
\* 5 if it appears in any keyword.
Points(token, item) ==
  (IF In(token, Lower(Content(item))) THEN 10 ELSE 0)
  + (IF \E keyword \in {Keywords(item)[k] : k \in 1..Len(Keywords(item))} :
          In(token, keyword)
     THEN 5 ELSE 0)

RECURSIVE SumPoints(_, _, _)
SumPoints(spans, s, item) ==
  IF spans = {} THEN 0
  ELSE LET span == CHOOSE x \in spans : TRUE
       IN  Points(SubSeq(s, span[1], span[2]), item)
           + SumPoints(spans \ {span}, s, item)

\* The score the claims give an item for a query.
SumOverTokens(query_text, item) ==
  SumPoints(TokenSpans(Lower(query_text)), Lower(query_text), item)

\* The knowledge item an entry of the result was made from.
ItemOf(entry) == [f \in DOMAIN entry \ {"relevance_score"} |-> entry[f]]

\* C21: every entry of the list a query returns is a knowledge item of the
\* store with, as its score, the sum over the whitespace-separated,
\* lower-cased tokens of the query of 10 if the token appears in the item's
\* content plus 5 if it appears in any of its keywords, and that score is
\* greater than zero.
C21_ScoreIsSumOverTokens ==
  QueryReturned =>
    \A p \in 1..Len(out.ret.results) :
      LET entry == out.ret.results[p] IN
      /\ \E j \in 1..Len(kb["financial_sentinel"].knowledge_base) :
           kb["financial_sentinel"].knowledge_base[j] = ItemOf(entry)
      /\ entry.relevance_score = SumOverTokens(out.input.query_text, ItemOf(entry))
      /\ entry.relevance_score > 0

\* A query of one word twice returned the overview item with the keyword's
\* five points counted for each of the two tokens.
C21_Witness ==
  /\ QueryReturned
  /\ out.input.query_text = "seta seta"
  /\ out.input.top_n = 3
  /\ Len(out.ret.results) = 2
  /\ out.ret.results[1].id.name = "section_12h_overview"
  /\ out.ret.results[1].relevance_score = 10

\* The positions in the store of the items a query gives a positive score.
Matching(query_text) ==
  {j \in 1..Len(kb["financial_sentinel"].knowledge_base) :
     SumOverTokens(query_text, kb["financial_sentinel"].knowledge_base[j]) > 0}

\* Position j comes before position k in the ordering: by greater score,
\* and by build order among equal scores.
Before(query_text, j, k) ==
  LET K == kb["financial_sentinel"].knowledge_base IN
  \/ SumOverTokens(query_text, K[j]) > SumOverTokens(query_text, K[k])
  \/ /\ SumOverTokens(query_text, K[j]) = SumOverTokens(query_text, K[k])
     /\ j < k

\* The list is the first n entries of the ordering of the matching items.
FirstOfOrdering(results, query_text, n) ==
  LET K == kb["financial_sentinel"].knowledge_base
      M == Matching(query_text)
  IN  /\ Len(results) = IF n < Cardinality(M) THEN n ELSE Cardinality(M)
      /\ \A p \in 1..Len(results) :
           \E j \in M :
             /\ ItemOf(results[p]) = K[j]
             /\ Cardinality({k \in M : Before(query_text, k, j)}) = p - 1

\* C22 as stated: the list a query returns is the first top_n entries of the
\* matching items ordered by descending score, equal scores in build order,
\* and has at most top_n entries.
C22_FirstTopN ==
  QueryReturned =>
    /\ Len(out.ret.results) <= out.input.top_n
    /\ FirstOfOrdering(out.ret.results, out.input.query_text, out.input.top_n)

\* C22, amended: for top_n >= 0, the list a query returns is the first top_n
\* entries of the matching items ordered by descending score, equal scores
\* in build order, and has at most top_n entries.
C22_FirstTopNWhenNonNegative ==
  (QueryReturned /\ out.input.top_n >= 0) =>
    /\ Len(out.ret.results) <= out.input.top_n
    /\ FirstOfOrdering(out.ret.results, out.input.query_text, out.input.top_n)

\* A query matched two items with the same score and returned, of the two,
\* the one built first.
C22_Witness ==
  /\ QueryReturned
  /\ out.input.query_text = "Seta"
  /\ out.input.top_n = 1
  /\ Cardinality(Matching("Seta")) = 2
  /\ Len(out.ret.results) = 1
  /\ out.ret.results[1].id.name = "section_12h_overview"

\* C23: a query on an initialized store changes neither the knowledge items
\* nor the rule sets of the store nor anything persisted, and the same query
\* made again right after it returns the identical list.
C23_QueryIsIdempotent ==
  [][(kb["financial_sentinel"].initialized /\ out.op = "none" /\ out'.op = "query") =>
       /\ kb' = kb
       /\ disk' = disk
       /\ backups' = backups
       /\ \E again \in {Query(kb'["financial_sentinel"], out'.input.query_text,
                              out'.input.top_n)} :
            /\ again.err = out'.err
            /\ again.ret = out'.ret
            /\ again.mem = kb'["financial_sentinel"]]_vars

\* A query on an initialized store returned two items, the first with a
\* greater score than the second.
C23_Witness ==
  /\ QueryReturned
  /\ lastOp.op = "initialize"
  /\ kb["financial_sentinel"].initialized
  /\ out.input.query_text = "NQF"
  /\ Len(out.ret.results) = 2
  /\ out.ret.results[1].relevance_score > out.ret.results[2].relevance_score

\* C24: when the call of the semantic ranker fails or times out, the query
\* still completes, with a ranked result from the local keyword search.
C24_RankerFailureFallsBack ==
  (/\ out.op \in {"CrisisDetector.query", "query_crisis_intelligence"}
   /\ detector.initialized
   /\ out.input.rerank # "ranked") =>
    /\ out.err = "none"
    /\ out.ret.kind = "results"

\* The total of one learner by the allowances table of a document: the
\* annual allowance of the cell of the learner's band and ability column,
\* plus the completion allowance of the same cell when the learner completed.
TotalByTable(doc, learner) ==
  LET band == IF learner.nqf_level <= 6 THEN "nqf_1_to_6" ELSE "nqf_7_to_10"
      column == IF learner.disabled THEN "disability" ELSE "able_bodied"
  IN  Allowances(doc).annual_allowance[band][column]
      + (IF learner.completed
         THEN Allowances(doc).completion_allowance[band][column] ELSE 0)

\* C25: for every learner with a band in 1..10, the per-learner total of the
\* breakdown is the total by the allowances table of the Section 12H rule
\* set current at the time of the call (the document persisted then), also
\* when that document was put there by an update.
C25_TotalByCurrentTable ==
  (out.op = "calculate_section_12h" /\ out.err = "none") =>
    \A j \in DOMAIN out.input :
      out.input[j].nqf_level \in 1..10 =>
        out.ret.breakdown[j].total = TotalByTable(disk[F12H].body, out.input[j])

\* An employee is eligible by the values of a rule set: age within its age
\* range and salary below its threshold.
EligibleBy(rules, employee) ==
  /\ employee.age >= rules.age_range[1] /\ employee.age <= rules.age_range[2]
  /\ employee.monthly_salary < rules.qualifying_threshold

\* C26: the calculation uses the age window and salary ceiling of the ETI
\* rule set the store holds at the time of the call: the employees counted
\* are those eligible by that rule set's values.
C26_ValuesOfCurrentRuleSet ==
  ETIReturned =>
    out.ret.qualifying_employees =
      Cardinality({j \in DOMAIN out.input :
                     EligibleBy(ETIRules(kb["financial_sentinel"].eti_data),
                                out.input[j])})

\* The incentive by the early-tenure and by the later-tenure coefficients.
EarlyTenure(salary) == monthly_eti(salary, 1)
LaterTenure(salary) == monthly_eti(salary, 13)

\* C27: where the two coefficient sets give different amounts, an employee
\* in the breakdown is paid by the early-tenure set exactly when
\* months_employed is in 1..12 and by the later-tenure set exactly when it is
\* in 13..24.
C27_TenureBands ==
  ETIReturned =>
    \A j \in DOMAIN out.ret.breakdown :
      LET entry == out.ret.breakdown[j] IN
      EarlyTenure(entry.salary) # LaterTenure(entry.salary) =>
        /\ entry.monthly_eti = EarlyTenure(entry.salary)
             <=> entry.months_employed \in 1..12
        /\ entry.monthly_eti = LaterTenure(entry.salary)
             <=> entry.months_employed \in 13..24

\* C28: after a successful load or update the knowledge-item list of the
\* store holds each item id at most once, and its length is 8 plus the
\* number of worked examples in the store's two rule sets.
C28_ListRebuiltNotAccumulated ==
  (lastOp.op \in {"initialize", "update_regulation"} /\ lastOp.err = "none") =>
    LET K == kb[lastOp.inst].knowledge_base IN
    /\ \A j, k \in 1..Len(K) : K[j].id = K[k].id => j = k
    /\ Len(K) = 8 + kb[lastOp.inst].section12h_data.nex + kb[lastOp.inst].eti_data.nex

\* A second successful update of Section 12H: the first put version 2 (no
\* worked example) in place and rebuilt the list, the second replaced it (its
\* backup holds version 2) by a document with one example and rebuilt the
\* list again, to ten items.
C28_Witness ==
  /\ lastOp.op = "update_regulation"
  /\ lastOp.err = "none"
  /\ lastOp.arg = "section_12h"
  /\ nupd = 2
  /\ \E p \in BackupPaths :
       /\ p[1] = F12H
       /\ backups[p].exists
       /\ backups[p].body.ver = 2 /\ backups[p].body.missing = "none"
  /\ \A p \in BackupPaths : p[1] = FETI => ~backups[p].exists
  /\ disk[FETI].exists
  /\ kb["sars_monitor"].section12h_data.nex = 1
  /\ kb["sars_monitor"].eti_data.nex = 1
  /\ Len(kb["sars_monitor"].knowledge_base) = 10

\* C29: a call of update leaves the persisted document of every other
\* regulation and every backup that existed before the call as they were;
\* besides the current document of its regulation it creates at most one
\* backup, a backup of that document.
C29_UpdateTouchesOnlyItsOwn ==
  [][lastOp'.op = "update_regulation" =>
       /\ \A f \in FileNames :
            (lastOp'.arg \in DOMAIN file_map /\ f = file_map[lastOp'.arg])
            \/ disk'[f] = disk[f]
       /\ \A p \in BackupPaths : backups[p].exists => backups'[p] = backups[p]
       /\ Cardinality({p \in BackupPaths : backups'[p] # backups[p]}) <= 1
       /\ \A p \in BackupPaths :
            backups'[p] # backups[p] =>
              (lastOp'.arg \in DOMAIN file_map /\ p[1] = file_map[lastOp'.arg])]_vars

==============================================================================
